---- MODULE Spec2Model ----
(***************************************************************************)
(* Semantic indexing and retrieval of the Scopus chatbot.                  *)
(*                                                                         *)
(*   storage   : data_processor.py   (articles table, AUTOINCREMENT ids)   *)
(*   indexer   : semantic_indexer.py (compose, embed, FAISS index, files)  *)
(*   retriever : chatbot_interface.py (cached loaders, semantic_search)    *)
(*                                                                         *)
(* A text is a sequence of tokens; " " is the blank token.  A vector is a  *)
(* pair of integers; unit vectors have Euclidean norm UNIT, so an inner    *)
(* product of two unit vectors is the cosine scaled by UNIT * UNIT.        *)
(***************************************************************************)
EXTENDS Integers, Sequences, FiniteSets, TLC

VARIABLES articles, seq, faissFile, metaFile, indexer, cache, chatbot, run, count,
          probe, db, extractor, chroma

vars == <<articles, seq, faissFile, metaFile, indexer, cache, chatbot, run, count,
          probe, db, extractor, chroma>>

(* ---------------------------- bounds ----------------------------------- *)
\* largest AUTOINCREMENT id handed out in a run of the model
MaxId == 3
\* largest k passed to semantic_search
MaxK == 2
\* number of indexing runs
MaxBuilds == 1
\* number of runs of the storage pipeline
MaxRuns == 3

(* --------------------------- constants --------------------------------- *)
\* SQL NULL / NaN in a text column
NULL == <<"<NULL>">>
\* vector dimension of the embedding model in the integer model
DIM == 2
\* Euclidean norm of a normalized vector in the integer model
UNIT == 5
\* score FAISS reports for a padded (label -1) slot: the lowest float
FLT_LOWEST == -1000
\* model names: the one both classes are written with, and the one of an
\* installation whose indexer was set up with another model
DefaultModel == "all-MiniLM-L6-v2"
ModelNames == {DefaultModel, "paraphrase-MiniLM-L3-v2"}

Min(a, b) == IF a < b THEN a ELSE b

(* ----------------------- cleaned input records ------------------------- *)
\* rows as load_and_clean_data hands them to store_articles
R1 == [scopus_id |-> "s1", title |-> <<"mri">>, abstract |-> <<"deep">>,
       keywords |-> <<>>, subject_areas |-> <<>>]

R2 == [scopus_id |-> "s2", title |-> <<"robot">>, abstract |-> <<>>,
       keywords |-> <<"endo">>, subject_areas |-> <<"med">>]

R3 == [scopus_id |-> "s3", title |-> <<"mri">>, abstract |-> <<"deep">>,
       keywords |-> <<>>, subject_areas |-> <<>>]

\* query strings typed by the user
Queries ==
  { <<>>, <<" ", " ">>, <<" ", "mri", " ">> }

(* ------------------------------ storage -------------------------------- *)
\* INSERT OR REPLACE of one row: a row with the same scopus_id is deleted,
\* the new row takes the next AUTOINCREMENT id
InsertOrReplace(tbl, s, row) ==
  { r \in tbl : r.scopus_id # row.scopus_id } \cup
  { [id |-> s + 1, scopus_id |-> row.scopus_id, title |-> row.title,
     abstract |-> row.abstract, keywords |-> row.keywords,
     subject_areas |-> row.subject_areas] }

RECURSIVE StoreRows(_, _, _)
StoreRows(tbl, s, df) ==
  IF df = <<>> THEN tbl
  ELSE StoreRows(InsertOrReplace(tbl, s, Head(df)), s + 1, Tail(df))

\* the cleaned input files: no scopus_id twice (drop_duplicates ran before)
Batches == { <<R1, R3>>, <<R2>>, <<R1>> }

store_articles(df) ==
  /\ seq + Len(df) <= MaxId
  /\ articles' = StoreRows(articles, seq, df)
  /\ seq' = seq + Len(df)
  /\ UNCHANGED <<faissFile, metaFile, indexer, cache, chatbot, run, count, probe,
               db, extractor, chroma>>

(* ------------------------- text composition ---------------------------- *)
\* pd.notna(v) and v
Present(v) == v # NULL /\ v # <<>>

\* a label is appended for every field, an empty one too
Part_AlwaysLabel(label, v) == << <<label, " ">> \o (IF v = NULL THEN <<>> ELSE v) >>

\* one append of prepare_text_for_embedding: f"<label> {value}" when the
\* field is there
Part(label, v) == IF Present(v) THEN << <<label, " ">> \o v >> ELSE <<>>

RECURSIVE JoinSpace(_)
\* " ".join(parts)
JoinSpace(parts) ==
  IF parts = <<>> THEN <<>>
  ELSE IF Len(parts) = 1 THEN parts[1]
  ELSE parts[1] \o <<" ">> \o JoinSpace(Tail(parts))

prepare_text_for_embedding(row) ==
  JoinSpace(Part("Title:", row.title) \o Part("Abstract:", row.abstract) \o
            Part("Keywords:", row.keywords) \o Part("Subject:", row.subject_areas))

(* ------------------------------ embedder ------------------------------- *)
\* vectors a sentence-transformer may return (not normalized)
RawVectors == << <<10, 0>>, <<6, 8>>, <<0, 10>>, <<-6, 8>>, <<8, 6>> >>

TokCode(tok) ==
  CASE tok = "mri" -> 1 [] tok = "deep" -> 2 [] tok = "robot" -> 3
    [] tok = "endo" -> 4 [] tok = "med" -> 2 [] tok = " " -> 0
    [] tok = "Title:" -> 1 [] tok = "Abstract:" -> 2
    [] tok = "Keywords:" -> 3 [] tok = "Subject:" -> 4 [] OTHER -> 0

RECURSIVE TextCode(_)
TextCode(t) == IF t = <<>> THEN 0 ELSE TokCode(Head(t)) + TextCode(Tail(t))

ModelOffset(m) == IF m = DefaultModel THEN 0 ELSE 2

\* model.encode of one text: a pure function of the model and the text
Encode(m, t) == RawVectors[((TextCode(t) + ModelOffset(m)) % Len(RawVectors)) + 1]

(* --------------------------- vector index ------------------------------ *)
\* a FAISS index handle, or Python None
NoIndex == [isNone |-> TRUE, xb |-> <<>>]

FlatIP(vecs) == [isNone |-> FALSE, xb |-> vecs]

SqNorm(v) == v[1] * v[1] + v[2] * v[2]

Norm(v) == CHOOSE n \in 0..(2 * UNIT) : n * n = SqNorm(v)

\* faiss.normalize_L2 of one row: a zero row is left as it is
normalize_L2(v) ==
  IF Norm(v) = 0 THEN v
  ELSE << (v[1] * UNIT) \div Norm(v), (v[2] * UNIT) \div Norm(v) >>

InnerProduct(a, b) == a[1] * b[1] + a[2] * b[2]

Pad(n) == [i \in 1..n |-> [idx |-> -1, score |-> FLT_LOWEST]]

\* a search that returns k distinct positions in any order
FaissSearch_Unsorted(index, q, k) ==
  LET n == Len(index.xb)
      m == Min(k, n)
  IN { [i \in 1..m |-> [idx |-> f[i], score |-> InnerProduct(index.xb[f[i] + 1], q)]]
         \o Pad(k - m) :
         f \in { g \in [1..m -> 0..(n - 1)] :
                   \A i, j \in 1..m : i # j => g[i] # g[j] } }

\* IndexFlatIP.search(q, k): every answer the exact top-k contract allows.
\* Positions are 0-based; slots beyond ntotal carry label -1.
FaissSearch(index, q, k) ==
  LET n == Len(index.xb)
      m == Min(k, n)
      sc(p) == InnerProduct(index.xb[p + 1], q)
  IN { [i \in 1..m |-> [idx |-> f[i], score |-> sc(f[i])]] \o Pad(k - m) :
         f \in { g \in [1..m -> 0..(n - 1)] :
                   /\ \A i, j \in 1..m : i # j => g[i] # g[j]
                   /\ \A i \in 1..m : \A j \in 1..m : i < j => sc(g[i]) >= sc(g[j])
                   /\ \A p \in 0..(n - 1) :
                        (\A i \in 1..m : g[i] # p) =>
                           \A i \in 1..m : sc(g[i]) >= sc(p) } }

(* ------------------------------ indexer -------------------------------- *)
\* the same SELECT with ORDER BY id DESC
RECURSIVE OrderById_Desc(_)
OrderById_Desc(tbl) ==
  IF tbl = {} THEN <<>>
  ELSE LET r == CHOOSE x \in tbl : \A y \in tbl : x.id >= y.id
       IN <<r>> \o OrderById_Desc(tbl \ {r})

\* SELECT ... FROM articles ORDER BY id, as a sequence of rows
RECURSIVE OrderById(_)
OrderById(tbl) ==
  IF tbl = {} THEN <<>>
  ELSE LET r == CHOOSE x \in tbl : \A y \in tbl : x.id <= y.id
       IN <<r>> \o OrderById(tbl \ {r})

load_articles_from_database == OrderById(articles)

\* texts in df.iterrows() order, encoded in that order
create_embeddings(m, df) ==
  [i \in 1..Len(df) |-> Encode(m, prepare_text_for_embedding(df[i]))]

\* the matrix is added as create_embeddings returned it
NormalizeRows_Identity(emb) == emb

\* faiss.normalize_L2 on the whole matrix
NormalizeRows(emb) == [i \in 1..Len(emb) |-> normalize_L2(emb[i])]

\* the ids taken in the opposite order of the rows
IdList_Reversed(df) == [i \in 1..Len(df) |-> df[Len(df) + 1 - i].id]

\* df['id'].tolist()
IdList(df) == [i \in 1..Len(df) |-> df[i].id]

\* a file on disk; gen is the indexing run that wrote it (0: none of the
\* runs counted here), kept to tell the generations of the two files apart
NoFaissFile == [exists |-> FALSE, xb |-> <<>>, gen |-> 0]

NoMetaFile == [exists |-> FALSE, article_ids |-> <<>>, model_name |-> DefaultModel,
               dimension |-> 0, gen |-> 0]

NewIndexer(m) ==
  [pc |-> "start", model_name |-> m, df |-> <<>>, embeddings |-> <<>>,
   faiss_index |-> NoIndex, article_ids |-> <<>>, result |-> "none",
   articles_loaded |-> FALSE, total_articles |-> 0, corpus |-> {},
   written |-> <<>>]

\* process_complete_indexing has returned res and the process has exited
Returned(ix, res) ==
  [NewIndexer(ix.model_name) EXCEPT !.pc = "returned", !.result = res,
                                    !.articles_loaded = ix.articles_loaded,
                                    !.total_articles = Len(ix.df),
                                    !.written = ix.written]

\* process_complete_indexing up to create_embeddings: a new SemanticIndexer
\* (with the model name this installation's indexer is configured with)
\* loads the model and the articles, refuses an empty table, and embeds
IndexingStart(modelOK) ==
  /\ indexer.pc \in {"idle", "returned"}
  /\ count.builds < MaxBuilds
  /\ count' = [count EXCEPT !.builds = @ + 1]
  /\ LET df == load_articles_from_database
         m == indexer.model_name
         ix == NewIndexer(m)
     IN indexer' =
          IF ~modelOK THEN Returned(ix, "False")
          ELSE IF Len(df) = 0
            THEN Returned([ix EXCEPT !.df = df, !.articles_loaded = TRUE], "False")
          ELSE [ix EXCEPT !.pc = "embedded", !.df = df, !.articles_loaded = TRUE,
                          !.corpus = articles,
                          !.written = <<"embeddings">>,
                          !.embeddings = create_embeddings(m, df)]
  /\ UNCHANGED <<articles, seq, faissFile, metaFile, cache, chatbot, run, probe,
               db, extractor, chroma>>

\* create_faiss_index up to faiss.write_index
CreateFaissWriteIndex ==
  /\ indexer.pc = "embedded"
  /\ LET xb == NormalizeRows(indexer.embeddings)
     IN /\ indexer' = [indexer EXCEPT !.pc = "index_written",
                                      !.written = Append(@, "faiss_index"),
                                      !.faiss_index = FlatIP(xb),
                                      !.article_ids = IdList(indexer.df)]
        /\ faissFile' = [exists |-> TRUE, xb |-> xb, gen |-> count.builds]
  /\ UNCHANGED <<articles, seq, metaFile, cache, chatbot, run, count, probe,
               db, extractor, chroma>>

\* create_faiss_index: pickle.dump of the metadata
CreateFaissWriteMeta ==
  /\ indexer.pc = "index_written"
  /\ metaFile' = [exists |-> TRUE, article_ids |-> indexer.article_ids,
                  model_name |-> indexer.model_name, dimension |-> DIM,
                  gen |-> count.builds]
  /\ indexer' = [indexer EXCEPT !.pc = "faiss_done",
                                !.written = Append(@, "metadata")]
  /\ UNCHANGED <<articles, seq, faissFile, cache, chatbot, run, count, probe,
               db, extractor, chroma>>

\* str(n) of a row id
Str(n) == <<"1", "2", "3", "4", "5", "6", "7", "8", "9">>[n]

\* the persisted Chroma collection "scopus_articles": none
NoChroma == [exists |-> FALSE, docs |-> {}]

\* create_chromadb_collection: the collection is deleted if it is there,
\* created again, and one document per row is added under the id str(row.id)
create_chromadb_collection(df) ==
  [exists |-> TRUE,
   docs |-> { [id |-> Str(df[i].id), document |-> prepare_text_for_embedding(df[i])] :
                i \in 1..Len(df) }]

\* a finish whose collection is opened as it is and added to
IndexingFinish_KeepDocs ==
  /\ indexer.pc = "faiss_done"
  /\ chroma' = [exists |-> TRUE,
                docs |-> chroma.docs \cup create_chromadb_collection(indexer.df).docs]
  /\ indexer' = Returned([indexer EXCEPT !.written = @ \o <<"chroma", "report">>], "True")
  /\ UNCHANGED <<articles, seq, faissFile, metaFile, cache, chatbot, run, count, probe,
               db, extractor>>

\* the remaining steps of process_complete_indexing (the Chroma collection,
\* the test searches, the report), then return True
IndexingFinish ==
  /\ indexer.pc = "faiss_done"
  /\ chroma' = create_chromadb_collection(indexer.df)
  /\ indexer' = Returned([indexer EXCEPT !.written = @ \o <<"chroma", "report">>], "True")
  /\ UNCHANGED <<articles, seq, faissFile, metaFile, cache, chatbot, run, count, probe,
               db, extractor>>

\* how far create_chromadb_collection got when a step after the FAISS files
\* raised: not to the delete, past the delete but not past the add, or to
\* its end (the test searches or the report raised)
ChromaStages == {"untouched", "deleted", "added"}

\* an exception handler that reports success
IndexingFail_ReturnsTrue(stage) ==
  /\ indexer.pc \in {"embedded", "index_written", "faiss_done"}
  /\ indexer.pc # "faiss_done" => stage = "untouched"
  /\ chroma' = CASE stage = "untouched" -> chroma
                  [] stage = "deleted" -> NoChroma
                  [] stage = "added" -> create_chromadb_collection(indexer.df)
  /\ indexer' = Returned([indexer EXCEPT !.written =
                             IF stage = "added" THEN Append(@, "chroma") ELSE @],
                         "True")
  /\ UNCHANGED <<articles, seq, faissFile, metaFile, cache, chatbot, run, count, probe,
               db, extractor>>

\* an exception in any step after the embeddings: caught, return False
IndexingFail(stage) ==
  /\ indexer.pc \in {"embedded", "index_written", "faiss_done"}
  /\ indexer.pc # "faiss_done" => stage = "untouched"
  /\ chroma' = CASE stage = "untouched" -> chroma
                  [] stage = "deleted" -> NoChroma
                  [] stage = "added" -> create_chromadb_collection(indexer.df)
  /\ indexer' = Returned([indexer EXCEPT !.written =
                             IF stage = "added" THEN Append(@, "chroma") ELSE @],
                         "False")
  /\ UNCHANGED <<articles, seq, faissFile, metaFile, cache, chatbot, run, count, probe,
               db, extractor>>

(* ----------------------------- retriever ------------------------------- *)
IsSpace(tok) == tok = " "

RECURSIVE LStrip(_)
LStrip(t) == IF t # <<>> /\ IsSpace(Head(t)) THEN LStrip(Tail(t)) ELSE t

RECURSIVE RStrip(_)
RStrip(t) ==
  IF t # <<>> /\ IsSpace(t[Len(t)]) THEN RStrip(SubSeq(t, 1, Len(t) - 1)) ELSE t

\* str.strip()
Strip(t) == RStrip(LStrip(t))

\* a guard that tests the raw query
IsBlank_NoStrip(q) == q = <<>>

\* not query.strip()
IsBlank(q) == Strip(q) = <<>>

\* a loader that tests the index file only
load_faiss_index_IndexOnly(ff, mf, readOK) ==
  IF ff.exists
  THEN IF readOK
       THEN [index |-> FlatIP(ff.xb),
             article_ids |-> IF mf.exists THEN mf.article_ids ELSE <<>>,
             model_name |-> mf.model_name, raised |-> FALSE]
       ELSE [index |-> NoIndex, article_ids |-> <<>>,
             model_name |-> "", raised |-> TRUE]
  ELSE [index |-> NoIndex, article_ids |-> <<>>, model_name |-> "", raised |-> FALSE]

\* a loader that keeps the index it has read when the metadata read fails
load_faiss_index_KeepIndex(ff, mf, readOK) ==
  IF ff.exists /\ mf.exists
  THEN IF readOK
       THEN [index |-> FlatIP(ff.xb), article_ids |-> mf.article_ids,
             model_name |-> mf.model_name, raised |-> FALSE]
       ELSE [index |-> FlatIP(ff.xb), article_ids |-> <<>>,
             model_name |-> "", raised |-> TRUE]
  ELSE [index |-> NoIndex, article_ids |-> <<>>, model_name |-> "", raised |-> FALSE]

\* a reader that loses the last row of the index file
load_faiss_index_ShortRead(ff, mf, readOK) ==
  IF ff.exists /\ mf.exists
  THEN IF readOK
       THEN [index |-> FlatIP(SubSeq(ff.xb, 1, Len(ff.xb) - 1)),
             article_ids |-> mf.article_ids,
             model_name |-> mf.model_name, raised |-> FALSE]
       ELSE [index |-> NoIndex, article_ids |-> <<>>,
             model_name |-> "", raised |-> TRUE]
  ELSE [index |-> NoIndex, article_ids |-> <<>>, model_name |-> "", raised |-> FALSE]

\* body of load_faiss_index: both files must exist; a read error is caught,
\* reported and turned into (None, [])
load_faiss_index(ff, mf, readOK) ==
  IF ff.exists /\ mf.exists
  THEN IF readOK
       THEN [index |-> FlatIP(ff.xb), article_ids |-> mf.article_ids,
             model_name |-> mf.model_name, raised |-> FALSE]
       ELSE [index |-> NoIndex, article_ids |-> <<>>,
             model_name |-> "", raised |-> TRUE]
  ELSE [index |-> NoIndex, article_ids |-> <<>>, model_name |-> "", raised |-> FALSE]

\* body of load_articles_data: the rows of the articles table; a failing
\* query is caught, reported and turned into an empty frame
load_articles_data(dbOK) == IF dbOK THEN articles ELSE {}

\* a setup that goes on without an index
SetupOutcome_NoStop(index) == "interface"

\* end of setup_chatbot: st.error and st.stop() when no index was loaded
SetupOutcome(index) == IF index.isNone THEN "stopped" ELSE "interface"

EmptyCache ==
  [model |-> FALSE, index_set |-> FALSE, index |-> NoIndex, article_ids |-> <<>>,
   meta_model |-> "", data_set |-> FALSE, articles_df |-> {}]

NoChatbot ==
  [model_name |-> DefaultModel, model |-> FALSE, faiss_index |-> NoIndex,
   article_ids |-> <<>>, articles_df |-> {}]

NoRun ==
  [pc |-> "none", errors |-> {}, init_failure |-> "none", searched |-> FALSE,
   query |-> <<>>, k |-> 0, qvec |-> <<0, 0>>, hits |-> <<>>, results |-> <<>>,
   raised |-> FALSE]

\* what went wrong with the resources this script run needs
InitFailure(modelAvail, loaded, fresh) ==
  IF ~modelAvail THEN "ModelUnavailable"
  ELSE IF fresh /\ loaded.raised THEN "IndexUnreadable"
  ELSE IF loaded.index.isNone THEN "IndexUnavailable"
  ELSE "none"

\* a load_faiss_index without @st.cache_resource
IndexCached_Never == FALSE

\* @st.cache_resource on load_faiss_index: the call was made before in this
\* process and its return value is reused
IndexCached == cache.index_set

\* the outcome of a load is an input of the script run only when the load is
\* made: a cached call, a call after the model failed to load, and a read of
\* files that are not both there have no outcome of their own
LoadsMade(modelOK, readOK, dbOK) ==
  /\ cache.model => modelOK
  /\ (IndexCached \/ ~modelOK \/ ~(faissFile.exists /\ metaFile.exists)) => readOK
  /\ (cache.data_set \/ ~modelOK) => dbOK

\* one script run of main(): ScopusChatbot() with setup_chatbot, up to the
\* point where run_interface starts, the script is stopped, or main's
\* except clause reports the failure
Main(modelOK, readOK, dbOK) ==
  /\ run.pc \in {"none", "interface", "stopped", "failed"}
  /\ LoadsMade(modelOK, readOK, dbOK)
  /\ LET modelAvail == cache.model \/ modelOK
         fresh == ~IndexCached
         loaded == IF fresh THEN load_faiss_index(faissFile, metaFile, readOK)
                   ELSE [index |-> cache.index, article_ids |-> cache.article_ids,
                         model_name |-> cache.meta_model, raised |-> FALSE]
         df == IF cache.data_set THEN cache.articles_df ELSE load_articles_data(dbOK)
         failure == InitFailure(modelAvail, loaded, fresh)
     IN IF ~modelAvail
        THEN /\ run' = [NoRun EXCEPT !.pc = "failed", !.init_failure = failure,
                                     !.errors = {"Erreur lors de l'initialisation"}]
             /\ chatbot' = NoChatbot
             /\ cache' = cache
        ELSE /\ cache' = [model |-> TRUE, index_set |-> TRUE, index |-> loaded.index,
                          article_ids |-> loaded.article_ids,
                          meta_model |-> loaded.model_name,
                          data_set |-> TRUE, articles_df |-> df]
             /\ chatbot' = [model_name |-> DefaultModel, model |-> TRUE,
                            faiss_index |-> loaded.index,
                            article_ids |-> loaded.article_ids, articles_df |-> df]
             /\ run' = [NoRun EXCEPT
                          !.pc = SetupOutcome(loaded.index),
                          !.init_failure = failure,
                          !.errors =
                             (IF fresh /\ loaded.raised
                                THEN {"Erreur lors du chargement de l'index FAISS"}
                                ELSE {}) \cup
                             (IF ~cache.data_set /\ ~dbOK
                                THEN {"Erreur lors du chargement des articles"}
                                ELSE {}) \cup
                             (IF loaded.index.isNone
                                THEN {"Index FAISS non trouve"} ELSE {})]
  /\ UNCHANGED <<articles, seq, faissFile, metaFile, indexer, count, probe,
               db, extractor, chroma>>

\* Python list indexing ids[i] with a possibly negative i
PyIndexOK(ids, i) == IF i >= 0 THEN i < Len(ids) ELSE -i <= Len(ids)

PyIndex(ids, i) == IF i >= 0 THEN ids[i + 1] ELSE ids[Len(ids) + i + 1]

\* the guard of the result loop: idx < len(self.article_ids)
InRange(ids, i) == i < Len(ids)

\* the result loop raises IndexError
JoinRaises(hits, ids) ==
  \E i \in 1..Len(hits) : InRange(ids, hits[i].idx) /\ ~PyIndexOK(ids, hits[i].idx)

RECURSIVE JoinHits_Break(_, _, _)
\* a result loop that ends at the first hit without a record
JoinHits_Break(hits, ids, df) ==
  IF hits = <<>> THEN <<>>
  ELSE LET h == Head(hits)
           rest == JoinHits_Break(Tail(hits), ids, df)
       IN IF InRange(ids, h.idx)
          THEN LET article_row == { r \in df : r.id = PyIndex(ids, h.idx) }
               IN IF article_row # {}
                  THEN << [score |-> h.score,
                           article |-> CHOOSE r \in article_row : TRUE] >> \o rest
                  ELSE <<>>
          ELSE rest

RECURSIVE JoinHits(_, _, _)
\* the result loop of semantic_search
JoinHits(hits, ids, df) ==
  IF hits = <<>> THEN <<>>
  ELSE LET h == Head(hits)
           rest == JoinHits(Tail(hits), ids, df)
       IN IF InRange(ids, h.idx)
          THEN LET article_row == { r \in df : r.id = PyIndex(ids, h.idx) }
               IN IF article_row # {}
                  THEN << [score |-> h.score,
                           article |-> CHOOSE r \in article_row : TRUE] >> \o rest
                  ELSE rest
          ELSE rest

SearchOutcome(q, k, qvec, hits, results, raised) ==
  [run EXCEPT !.searched = TRUE, !.query = q, !.k = k, !.qvec = qvec, !.hits = hits,
              !.results = results, !.raised = raised,
              !.errors = IF raised THEN @ \cup {"Erreur lors de la recherche"} ELSE @]

\* model.encode([query]).astype('float32') followed by faiss.normalize_L2
QueryVector(m, q) == normalize_L2(Encode(m, q))

\* a search that pops an entry off self.article_ids when it has results
semantic_search_Consuming(q, k) ==
  /\ run.pc = "interface"
  /\ ~run.searched
  /\ IF IsBlank(q)
     THEN run' = SearchOutcome(q, k, <<0, 0>>, <<>>, <<>>, FALSE)
     ELSE IF chatbot.faiss_index.isNone
     THEN run' = SearchOutcome(q, k, QueryVector(chatbot.model_name, q), <<>>, <<>>, TRUE)
     ELSE LET qv == QueryVector(chatbot.model_name, q)
          IN \E hits \in FaissSearch(chatbot.faiss_index, qv, k) :
               run' = IF JoinRaises(hits, chatbot.article_ids)
                      THEN SearchOutcome(q, k, qv, hits, <<>>, TRUE)
                      ELSE SearchOutcome(q, k, qv, hits,
                             JoinHits(hits, chatbot.article_ids, chatbot.articles_df),
                             FALSE)
  /\ chatbot' = [chatbot EXCEPT !.article_ids =
                    IF run'.results # <<>> THEN SubSeq(@, 1, Len(@) - 1) ELSE @]
  /\ UNCHANGED <<articles, seq, faissFile, metaFile, indexer, cache, count, probe,
               db, extractor, chroma>>

\* ScopusChatbot.semantic_search(query, k), called from run_interface: the
\* script run reaches the search button once, so it makes one call at most
semantic_search(q, k) ==
  /\ run.pc = "interface"
  /\ ~run.searched
  /\ IF IsBlank(q)
     THEN run' = SearchOutcome(q, k, <<0, 0>>, <<>>, <<>>, FALSE)
     ELSE IF chatbot.faiss_index.isNone
     THEN run' = SearchOutcome(q, k, QueryVector(chatbot.model_name, q), <<>>, <<>>, TRUE)
     ELSE LET qv == QueryVector(chatbot.model_name, q)
          IN \E hits \in FaissSearch(chatbot.faiss_index, qv, k) :
               run' = IF JoinRaises(hits, chatbot.article_ids)
                      THEN SearchOutcome(q, k, qv, hits, <<>>, TRUE)
                      ELSE SearchOutcome(q, k, qv, hits,
                             JoinHits(hits, chatbot.article_ids, chatbot.articles_df),
                             FALSE)
  /\ UNCHANGED <<articles, seq, faissFile, metaFile, indexer, cache, chatbot, count, probe,
               db, extractor, chroma>>

(* -------------------------- storage pipeline --------------------------- *)
\* a scopus_id that is null in the JSON file
NoScopusId == "<NaN>"

\* raw rows of the extractor's JSON file
A1 == [scopus_id |-> "s1", title |-> <<" ", "mri", " ", " ", "deep", " ">>,
       abstract |-> NULL, keywords |-> NULL, subject_areas |-> <<>>,
       authors |-> <<"ann", ";", " ", "bob">>]

A1b == [scopus_id |-> "s1", title |-> <<"robot">>,
        abstract |-> <<"endo">>, keywords |-> <<>>, subject_areas |-> <<>>,
        authors |-> <<"bob">>]

A2 == [scopus_id |-> "s2", title |-> <<"endo">>,
       abstract |-> <<>>, keywords |-> <<"med">>, subject_areas |-> NULL,
       authors |-> <<"ann", " and ", "J", ",", "ann">>]

A3 == [scopus_id |-> "s3", title |-> <<"med">>,
       abstract |-> <<>>, keywords |-> <<>>, subject_areas |-> <<>>,
       authors |-> NULL]

A4 == [scopus_id |-> NoScopusId, title |-> <<"deep">>,
       abstract |-> <<>>, keywords |-> <<>>, subject_areas |-> <<>>,
       authors |-> <<"bob">>]

\* the JSON files the pipeline is run on
RawFiles == { <<A1, A1b, A2>>, <<A2, A3>>, <<A3, A4>>, <<A1b>> }

\* re.sub(r'\s+', ' ', text): a run of white space becomes one space
RECURSIVE CollapseSpaces(_)
CollapseSpaces(t) ==
  IF Len(t) < 2 THEN t
  ELSE IF IsSpace(t[1]) /\ IsSpace(t[2]) THEN CollapseSpaces(Tail(t))
  ELSE <<t[1]>> \o CollapseSpaces(Tail(t))

clean_text(text) ==
  IF text = NULL \/ text = <<>> THEN <<>> ELSE Strip(CollapseSpaces(text))

\* df.drop_duplicates(subset=['scopus_id'], keep='last')
RECURSIVE DropDuplicates_KeepLast(_)
DropDuplicates_KeepLast(df) ==
  IF df = <<>> THEN <<>>
  ELSE IF \E i \in 2..Len(df) : df[i].scopus_id = Head(df).scopus_id
       THEN DropDuplicates_KeepLast(Tail(df))
       ELSE <<Head(df)>> \o DropDuplicates_KeepLast(Tail(df))

\* df.drop_duplicates(subset=['scopus_id'], keep='first')
RECURSIVE DropDuplicates(_)
DropDuplicates(df) ==
  IF df = <<>> THEN <<>>
  ELSE LET last == df[Len(df)]
           front == SubSeq(df, 1, Len(df) - 1)
       IN IF \E i \in 1..Len(front) : front[i].scopus_id = last.scopus_id
          THEN DropDuplicates(front)
          ELSE DropDuplicates(front) \o <<last>>

\* series.fillna('')
FillNa(v) == IF v = NULL THEN <<>> ELSE v

\* the cleaning of one row: clean_text on title, keywords and
\* subject_areas, then fillna on abstract, keywords and subject_areas
CleanRow(row) ==
  [scopus_id |-> row.scopus_id, title |-> clean_text(row.title),
   abstract |-> FillNa(row.abstract), keywords |-> FillNa(clean_text(row.keywords)),
   subject_areas |-> FillNa(clean_text(row.subject_areas)), authors |-> row.authors]

load_and_clean_data(file) ==
  LET df == DropDuplicates(file)
  IN [i \in 1..Len(df) |-> CleanRow(df[i])]

\* the rows of store_articles inside its transaction, up to the first row
\* the table refuses (NOT NULL on scopus_id)
RECURSIVE StoreTxn(_, _, _, _)
StoreTxn(tbl, s, df, n) ==
  IF df = <<>> THEN [articles |-> tbl, seq |-> s, stored |-> n, raised |-> FALSE]
  ELSE IF Head(df).scopus_id = NoScopusId
       THEN [articles |-> tbl, seq |-> s, stored |-> n, raised |-> TRUE]
       ELSE StoreTxn(InsertOrReplace(tbl, s, Head(df)), s + 1, Tail(df), n + 1)

\* a store_articles that commits what it has when a row fails
StoreOutcome_NoRollback(tbl, s, df) == StoreTxn(tbl, s, df, 0)

\* store_articles: conn.commit() after the last row, conn.rollback() and
\* raise when a row fails
StoreOutcome(tbl, s, df) ==
  LET t == StoreTxn(tbl, s, df, 0)
  IN IF t.raised
     THEN [articles |-> tbl, seq |-> s, stored |-> t.stored, raised |-> TRUE]
     ELSE t

\* len(author) of a cleaned name
RECURSIVE CharLen(_)
CharLen(name) ==
  IF name = <<>> THEN 0
  ELSE (IF Head(name) \in {"J", " "} THEN 1 ELSE 3) + CharLen(Tail(name))

IsSeparator(tok) == tok \in {";", ",", " and "}

\* re.split(r'[;,]|\sand\s', authors_str)
RECURSIVE SplitAuthors(_, _)
SplitAuthors(t, piece) ==
  IF t = <<>> THEN <<piece>>
  ELSE IF IsSeparator(Head(t)) THEN <<piece>> \o SplitAuthors(Tail(t), <<>>)
  ELSE SplitAuthors(Tail(t), Append(piece, Head(t)))

normalize_authors(authors_str) ==
  IF authors_str = NULL \/ authors_str = <<>> THEN <<>>
  ELSE LET pieces == SplitAuthors(authors_str, <<>>)
           cleaned == [i \in 1..Len(pieces) |-> clean_text(pieces[i])]
       IN SelectSeq(cleaned, LAMBDA a : CharLen(a) > 1)

\* the tables authors and article_authors after setup_database, and the
\* pipeline process: where it is, its file, its frame and what it returned
NoDb ==
  [authors |-> {}, author_seq |-> 0, article_authors |-> {}, relation_seq |-> 0,
   pc |-> "idle", runs |-> 0, raw |-> <<>>, df |-> <<>>, result |-> "none",
   articles_before |-> {}, articles_count |-> 0, raised |-> FALSE, closed |-> FALSE,
   unique_authors |-> 0, relations_created |-> 0]

\* SELECT id FROM authors WHERE preferred_name = ? and fetchone(): the scan
\* is in rowid order, the first row found has the lowest id
AuthorId(authors, name) ==
  CHOOSE i \in {a.id : a \in {b \in authors : b.preferred_name = name}} :
    \A a \in authors : a.preferred_name = name => i <= a.id

\* the loop over the authors of one article
RECURSIVE StoreNames(_, _, _)
StoreNames(d, article_id, names) ==
  IF names = <<>> THEN d
  ELSE LET name == Head(names)
           \* INSERT OR IGNORE INTO authors (preferred_name): the table has
           \* no constraint on preferred_name, the row is always inserted
           authors1 == d.authors \cup {[id |-> d.author_seq + 1, preferred_name |-> name]}
           author_id == AuthorId(authors1, name)
           \* INSERT OR IGNORE INTO article_authors: UNIQUE(article_id, author_id)
           isNew == \A r \in d.article_authors :
                      ~(r.article_id = article_id /\ r.author_id = author_id)
       IN StoreNames(
            [d EXCEPT !.authors = authors1,
                      !.author_seq = @ + 1,
                      !.article_authors =
                         IF isNew
                         THEN @ \cup {[id |-> d.relation_seq + 1,
                                       article_id |-> article_id,
                                       author_id |-> author_id]}
                         ELSE @,
                      !.relation_seq = IF isNew THEN @ + 1 ELSE @,
                      !.relations_created = IF isNew THEN @ + 1 ELSE @],
            article_id, Tail(names))

\* store_authors_and_relations: the loop over the rows of the frame
RECURSIVE StoreAuthorRows(_, _, _)
StoreAuthorRows(d, tbl, df) ==
  IF df = <<>> THEN d
  ELSE LET found == {r \in tbl : r.scopus_id = Head(df).scopus_id}
       IN IF found = {} THEN StoreAuthorRows(d, tbl, Tail(df))
          ELSE StoreAuthorRows(
                 StoreNames(d, (CHOOSE r \in found : TRUE).id,
                            normalize_authors(Head(df).authors)),
                 tbl, Tail(df))

\* process_complete_pipeline up to store_articles: load_and_clean_data
PipelineLoad(file) ==
  /\ db.pc \in {"idle", "returned"}
  /\ db.runs < MaxRuns
  /\ db' = [db EXCEPT !.pc = "cleaned", !.runs = @ + 1, !.raw = file,
                      !.df = load_and_clean_data(file), !.result = "none",
                      !.articles_before = articles,
                      !.articles_count = 0, !.raised = FALSE, !.closed = FALSE,
                      !.unique_authors = 0, !.relations_created = 0]
  /\ UNCHANGED <<articles, seq, faissFile, metaFile, indexer, cache, chatbot, run, count,
               probe, extractor, chroma>>

\* process_complete_pipeline: store_articles(df); its exception is caught
\* by the pipeline, which returns False
PipelineStoreArticles ==
  /\ db.pc = "cleaned"
  /\ LET t == StoreOutcome(articles, seq, db.df)
     IN /\ articles' = t.articles
        /\ seq' = t.seq
        /\ db' = [db EXCEPT !.pc = IF t.raised THEN "returned" ELSE "stored",
                            !.result = IF t.raised THEN "False" ELSE "none",
                            !.articles_count = t.stored,
                            !.raised = t.raised,
                            !.closed = TRUE]
  /\ UNCHANGED <<faissFile, metaFile, indexer, cache, chatbot, run, count,
               probe, extractor, chroma>>

\* process_complete_pipeline: store_authors_and_relations(df) and
\* generate_statistics, then return True
PipelineStoreAuthors ==
  /\ db.pc = "stored"
  /\ LET d == StoreAuthorRows(db, articles, db.df)
     IN db' = [d EXCEPT !.pc = "returned", !.result = "True",
                        !.unique_authors = Cardinality(d.authors)]
  /\ UNCHANGED <<articles, seq, faissFile, metaFile, indexer, cache, chatbot, run, count,
               probe, extractor, chroma>>

NextStorage ==
  \/ \E file \in RawFiles : PipelineLoad(file)
  \/ PipelineStoreArticles
  \/ PipelineStoreAuthors

(* --------------------------- specification ----------------------------- *)
\* ScopusExtractor.__init__: the statistics
NewExtractor ==
  [total_requests |-> 0, successful_requests |-> 0, failed_requests |-> 0,
   last |-> "none", calls |-> 0, total_before |-> 0, raised |-> FALSE]

\* no function has been applied on its own
NoProbe ==
  [fn |-> "none",
   row |-> [title |-> NULL, abstract |-> NULL, keywords |-> NULL, subject_areas |-> NULL],
   text |-> <<>>]

Init ==
  /\ articles = {}
  /\ seq = 0
  /\ faissFile = NoFaissFile
  /\ metaFile = NoMetaFile
  /\ \E m \in ModelNames : indexer = [NewIndexer(m) EXCEPT !.pc = "idle"]
  /\ cache = EmptyCache
  /\ chatbot = NoChatbot
  /\ run = NoRun
  /\ count = [builds |-> 0]
  /\ probe = NoProbe
  /\ db = NoDb
  /\ extractor = NewExtractor
  /\ chroma = NoChroma

Next ==
  \/ \E df \in Batches : store_articles(df)
  \/ \E modelOK \in BOOLEAN : IndexingStart(modelOK)
  \/ CreateFaissWriteIndex
  \/ CreateFaissWriteMeta
  \/ IndexingFinish
  \/ \E stage \in ChromaStages : IndexingFail(stage)
  \/ \E modelOK, readOK, dbOK \in BOOLEAN : Main(modelOK, readOK, dbOK)
  \/ \E q \in Queries, k \in 1..MaxK : semantic_search(q, k)

Spec == Init /\ [][Next]_vars

\* the index file and the metadata file on disk are those of a corpus without
\* records: faiss.write_index of an IndexFlatIP with no row, and the pickled
\* metadata with an empty article_ids list
InitEmptyIndex ==
  /\ articles = {}
  /\ seq = 0
  /\ faissFile = [exists |-> TRUE, xb |-> <<>>, gen |-> 0]
  /\ metaFile = [exists |-> TRUE, article_ids |-> <<>>, model_name |-> DefaultModel,
                 dimension |-> DIM, gen |-> 0]
  /\ \E m \in ModelNames : indexer = [NewIndexer(m) EXCEPT !.pc = "idle"]
  /\ cache = EmptyCache
  /\ chatbot = NoChatbot
  /\ run = NoRun
  /\ count = [builds |-> 0]
  /\ probe = NoProbe
  /\ db = NoDb
  /\ extractor = NewExtractor
  /\ chroma = NoChroma

SpecEmptyIndex == InitEmptyIndex /\ [][Next]_vars

\* an installation after an earlier, completed indexing run: one record was
\* stored, process_complete_indexing read it, wrote both files and returned
\* True
InitReindex ==
  /\ articles = StoreRows({}, 0, <<R2>>)
  /\ seq = 1
  /\ \E m \in ModelNames :
       LET df == OrderById(StoreRows({}, 0, <<R2>>))
       IN /\ faissFile = [exists |-> TRUE, gen |-> 0,
                          xb |-> NormalizeRows(create_embeddings(m, df))]
          /\ metaFile = [exists |-> TRUE, article_ids |-> IdList(df),
                         model_name |-> m, dimension |-> DIM, gen |-> 0]
          /\ indexer = Returned([NewIndexer(m) EXCEPT
                                   !.df = df, !.articles_loaded = TRUE,
                                   !.written = <<"embeddings", "faiss_index",
                                                 "metadata", "chroma", "report">>],
                                "True")
          /\ chroma = create_chromadb_collection(df)
  /\ cache = EmptyCache
  /\ chatbot = NoChatbot
  /\ run = NoRun
  /\ count = [builds |-> 0]
  /\ probe = NoProbe
  /\ db = NoDb
  /\ extractor = NewExtractor

SpecReindex == InitReindex /\ [][Next]_vars

SpecStorage == Init /\ [][NextStorage]_vars

\* values of one text column of a row: NaN, the empty string, and texts
FieldValues == { NULL, <<>>, <<"mri">>, <<"robot", " ", "endo">> }

\* rows as df.iterrows() hands them to prepare_text_for_embedding
Rows ==
  [title : FieldValues, abstract : FieldValues, keywords : FieldValues,
   subject_areas : FieldValues]

\* a call of prepare_text_for_embedding(row) on its own
Compose(row) ==
  /\ probe' = [fn |-> "prepare_text_for_embedding", row |-> row,
               text |-> prepare_text_for_embedding(row)]
  /\ UNCHANGED <<articles, seq, faissFile, metaFile, indexer, cache, chatbot, run, count,
               db, extractor, chroma>>

NextCompose == \E row \in Rows : Compose(row)

SpecCompose == Init /\ [][NextCompose]_vars

\* contents data/indexes/scopus_faiss.index can have: absent, or the matrix
\* of an earlier create_faiss_index
FaissFiles ==
  {NoFaissFile} \cup
  { [exists |-> TRUE, xb |-> xb, gen |-> 1] :
      xb \in { << <<5, 0>> >>, << <<0, 5>> >>, << <<5, 0>>, <<3, 4>> >>,
               << <<3, 4>>, <<4, 3>> >>, << <<0, 5>>, <<5, 0>>, <<-3, 4>> >> } }

\* contents data/indexes/faiss_metadata.pkl can have: absent, or the
\* metadata of an earlier create_faiss_index
MetaFiles ==
  {NoMetaFile} \cup
  { [exists |-> TRUE, article_ids |-> ids, model_name |-> DefaultModel,
     dimension |-> DIM, gen |-> 1] :
      ids \in { <<1>>, <<2>>, <<1, 2>>, <<2, 3>>, <<1, 2, 3>> } }

\* a call of load_faiss_index on its own, on any pair of files; indexOK and
\* metaOK say whether faiss.read_index and the unpickling with its
\* ['article_ids'] lookup succeed
LoadIndex(ff, mf, indexOK, metaOK) ==
  /\ probe' = [fn |-> "load_faiss_index", ff |-> ff, mf |-> mf,
               indexOK |-> indexOK, metaOK |-> metaOK,
               result |-> load_faiss_index(ff, mf, indexOK /\ metaOK)]
  /\ UNCHANGED <<articles, seq, faissFile, metaFile, indexer, cache, chatbot, run, count,
               db, extractor, chroma>>

NextLoad ==
  \E ff \in FaissFiles, mf \in MetaFiles, indexOK, metaOK \in BOOLEAN :
    LoadIndex(ff, mf, indexOK, metaOK)

SpecLoad == Init /\ [][NextLoad]_vars

\* calls of search_articles one extractor makes
MaxRequests == 4

\* what the HTTP exchange of one search_articles call can be:
\*   ok                  200 and a JSON body
\*   retry_ok            429, the pause, then 200 and a JSON body
\*   retry_429           429, the pause, then 429 again
\*   http_error          a 4xx/5xx status other than a first 429
\*   connection_error    session.get raises (no answer)
\*   retry_connection    429, the pause, then session.get raises
\*   undecodable         200 and a body that is not JSON, with a requests
\*                       whose Response.json raises
\*                       requests.exceptions.JSONDecodeError (2.27 and later)
\*   undecodable_legacy  the same body with a requests whose Response.json
\*                       raises a plain ValueError (before 2.27)
\* the requests version is not pinned by the repository
HttpOutcomes ==
  {"ok", "retry_ok", "retry_429", "http_error", "connection_error",
   "retry_connection", "undecodable", "undecodable_legacy"}

\* the outcome lets raise_for_status() return
StatusOk(outcome) == outcome \in {"ok", "retry_ok", "undecodable", "undecodable_legacy"}

\* a RequestException is raised inside the try block
RaisesRequestException(outcome) ==
  outcome \in {"retry_429", "http_error", "connection_error", "retry_connection",
               "undecodable"}

\* search_articles: total_requests += 1; the request (with one retry after
\* a 429); raise_for_status(); successful_requests += 1; response.json();
\* a RequestException raised anywhere in the try block adds one to
\* failed_requests and the call returns {}; any other exception leaves the
\* method
search_articles(outcome) ==
  /\ ~extractor.raised
  /\ extractor.calls < MaxRequests
  /\ extractor' =
       [extractor EXCEPT
          !.calls = @ + 1,
          !.total_before = extractor.total_requests,
          !.total_requests = @ + 1,
          !.successful_requests = IF StatusOk(outcome) THEN @ + 1 ELSE @,
          !.failed_requests = IF RaisesRequestException(outcome) THEN @ + 1 ELSE @,
          !.last = outcome,
          !.raised = (outcome = "undecodable_legacy")]
  /\ UNCHANGED <<articles, seq, faissFile, metaFile, indexer, cache, chatbot, run, count,
               probe, db, chroma>>

NextExtractor == \E outcome \in HttpOutcomes : search_articles(outcome)

SpecExtractor == Init /\ [][NextExtractor]_vars

\* pieces a cover_date string is put together from, as sequences of
\* characters
MaxPieces == 3

DatePieces ==
  { <<>>, <<"-">>, <<"x">>, <<"9">>, <<"0", "5">>,
    <<"0", "1", "9", "9">>, <<"1", "8", "9", "9">>, <<"1", "9", "0", "0">>,
    <<"2", "0", "2", "0">>, <<"2", "0", "3", "0">>, <<"2", "0", "3", "1">> }

\* the cover_date values: NaN, and the strings of up to MaxPieces pieces
RECURSIVE DateStrings(_)
DateStrings(n) ==
  IF n = 0 THEN { <<>> }
  ELSE { s \o piece : s \in DateStrings(n - 1), piece \in DatePieces }

CoverDates == {NULL} \cup DateStrings(MaxPieces)

\* \d
IsDigit(c) == c \in {"0", "1", "2", "3", "4", "5", "6", "7", "8", "9"}

DigitValue(c) ==
  CASE c = "0" -> 0 [] c = "1" -> 1 [] c = "2" -> 2 [] c = "3" -> 3 [] c = "4" -> 4
    [] c = "5" -> 5 [] c = "6" -> 6 [] c = "7" -> 7 [] c = "8" -> 8 [] c = "9" -> 9

\* \d{4} matches at position i
FourDigitsAt(s, i) ==
  /\ i + 3 <= Len(s)
  /\ \A j \in i..(i + 3) : IsDigit(s[j])

\* int(year_match.group(1)) for the match at position i
YearAt(s, i) ==
  1000 * DigitValue(s[i]) + 100 * DigitValue(s[i + 1])
    + 10 * DigitValue(s[i + 2]) + DigitValue(s[i + 3])

\* re.search(r'(\d{4})', s) scanning from position i: the position of the
\* leftmost match, 0 when there is none
RECURSIVE Search(_, _)
Search(s, i) ==
  IF i + 3 > Len(s) THEN 0
  ELSE IF FourDigitsAt(s, i) THEN i
  ELSE Search(s, i + 1)

\* the return values of extract_year
NoYear == [isNone |-> TRUE, year |-> 0]

Year(y) == [isNone |-> FALSE, year |-> y]

\* 1900 <= year <= 2030
ValidYear(y) == 1900 <= y /\ y <= 2030

\* a search that goes on to the next match when a match is out of range
RECURSIVE extract_year_AnyMatch(_)
extract_year_AnyMatch(date_str) ==
  IF date_str = NULL \/ date_str = <<>> THEN NoYear
  ELSE LET p == Search(date_str, 1)
       IN IF p = 0 THEN NoYear
          ELSE IF ValidYear(YearAt(date_str, p)) THEN Year(YearAt(date_str, p))
          ELSE extract_year_AnyMatch(SubSeq(date_str, p + 1, Len(date_str)))

\* extract_year: None for NaN and ''; otherwise the leftmost four digits as
\* an integer when it is in 1900..2030, None in every other case
extract_year(date_str) ==
  IF date_str = NULL \/ date_str = <<>> THEN NoYear
  ELSE LET p == Search(date_str, 1)
       IN IF p = 0 THEN NoYear
          ELSE IF ValidYear(YearAt(date_str, p)) THEN Year(YearAt(date_str, p))
          ELSE NoYear

\* a call of extract_year(date_str) on its own
ExtractYear(date_str) ==
  /\ probe.fn = "none"
  /\ probe' = [fn |-> "extract_year", date_str |-> date_str,
               year |-> extract_year(date_str)]
  /\ UNCHANGED <<articles, seq, faissFile, metaFile, indexer, cache, chatbot, run, count,
               db, extractor, chroma>>

NextYear == \E date_str \in CoverDates : ExtractYear(date_str)

SpecYear == Init /\ [][NextYear]_vars

TypeOK ==
  /\ seq \in 0..MaxId
  /\ \A r \in articles : r.id \in 1..seq

(* ------------------------------ properties ----------------------------- *)
\* a search of a non-blank query has been answered in this script run
Served == run.searched /\ \E i \in 1..Len(run.query) : run.query[i] # " "

\* number of vectors in the loaded index
NTotal == Len(chatbot.faiss_index.xb)

\* the hit is a real position of the index
RealHit(h) == h.idx >= 0 /\ h.idx < NTotal

\* the hit has a mapping entry and its record is in the loaded table
Resolvable(h) ==
  /\ h.idx >= 0
  /\ h.idx < Len(chatbot.article_ids)
  /\ \E r \in chatbot.articles_df : r.id = chatbot.article_ids[h.idx + 1]

\* the hit has a mapping entry but its record is gone from the loaded table
Stale(h) ==
  /\ h.idx >= 0
  /\ h.idx < Len(chatbot.article_ids)
  /\ \A r \in chatbot.articles_df : r.id # chatbot.article_ids[h.idx + 1]

\* the results the join contract asks for: the resolvable hits, in hit order
ExpectedResults ==
  LET sel == SelectSeq(run.hits, Resolvable)
  IN [i \in 1..Len(sel) |->
        [score |-> sel[i].score,
         article |-> CHOOSE r \in chatbot.articles_df :
                        r.id = chatbot.article_ids[sel[i].idx + 1]]]

\* C1: k-bound law. A non-blank search with a positive k returns at most
\* min(k, index.size) results, also when k exceeds the number of vectors.
C1_KBound == Served => Len(run.results) <= Min(run.k, NTotal)

\* C2: mapping invariant. After a completed create_faiss_index call the id
\* list is as long as the index, and the vector at each position is the
\* normalized embedding of the composed text of the record with that id.
C2_MappingInvariant ==
  indexer.pc = "faiss_done" =>
    /\ Len(indexer.article_ids) = Len(indexer.faiss_index.xb)
    /\ \A i \in 1..Len(indexer.article_ids) :
         \E j \in 1..Len(indexer.df) :
            /\ indexer.df[j].id = indexer.article_ids[i]
            /\ indexer.faiss_index.xb[i] =
                 normalize_L2(Encode(indexer.model_name,
                                     prepare_text_for_embedding(indexer.df[j])))

C2_Witness ==
  /\ indexer.pc = "faiss_done"
  /\ Len(indexer.article_ids) >= 2
  /\ indexer.faiss_index.xb[1] # indexer.faiss_index.xb[2]

\* C3: ranking invariant. The scores of the results of every search are
\* non-increasing by rank, whatever k is and whichever hits were dropped.
C3_Ranking ==
  run.searched =>
    \A i, j \in 1..Len(run.results) :
       i < j => run.results[i].score >= run.results[j].score

C3_Witness ==
  /\ Served
  /\ Len(run.results) >= 2
  /\ run.results[1].score > run.results[2].score

\* C4: join correctness. Every result comes from a real hit of the index,
\* in hit order: a position p with 0 <= p < index.size that has a mapping
\* entry, with the record whose id is article_ids[p] and the score of p.
C4_JoinCorrect ==
  run.searched =>
    \E f \in [1..Len(run.results) -> 1..Len(run.hits)] :
       /\ \A i, j \in 1..Len(run.results) : i < j => f[i] < f[j]
       /\ \A i \in 1..Len(run.results) :
            /\ RealHit(run.hits[f[i]])
            /\ run.hits[f[i]].idx < Len(chatbot.article_ids)
            /\ run.results[i].article.id = chatbot.article_ids[run.hits[f[i]].idx + 1]
            /\ run.results[i].score = run.hits[f[i]].score

C6_EmptyQuery ==
  (run.searched /\ \A i \in 1..Len(run.query) : run.query[i] = " ") =>
    run.results = <<>> /\ ~run.raised /\ "Erreur lors de la recherche" \notin run.errors

C6_Witness ==
  /\ run.searched
  /\ run.query = <<" ", " ">>
  /\ NTotal >= 1
  /\ run.results = <<>>

\* C7: index/model mismatch. The interface never serves an index whose
\* metadata names another model than the one the retriever is configured
\* with.
C7_ModelMismatch ==
  (run.pc = "interface" \/ run.searched) => cache.meta_model = chatbot.model_name

\* C8: index unavailable. Whenever a script run ends its setup without a
\* loaded index, the missing index is reported, the script is stopped, and
\* no search is answered; every answered search had a loaded index.
C8_IndexUnavailable ==
  /\ (run.pc \in {"interface", "stopped"} /\ chatbot.faiss_index.isNone) =>
        /\ run.pc = "stopped"
        /\ "Index FAISS non trouve" \in run.errors
        /\ ~run.searched
  /\ run.searched => ~chatbot.faiss_index.isNone

C8_Witness ==
  /\ run.pc = "stopped"
  /\ chatbot.faiss_index.isNone
  /\ run.init_failure = "IndexUnavailable"
  /\ "Index FAISS non trouve" \in run.errors

\* C9: propagation policy. In a script run whose initialization failed
\* (model not loadable, index or metadata missing or unreadable) the
\* interface is never reached and no query is processed.
C9_Propagation ==
  run.init_failure # "none" => run.pc \in {"failed", "stopped"} /\ ~run.searched

C9_Witness ==
  /\ run.init_failure = "IndexUnreadable"
  /\ faissFile.exists /\ metaFile.exists
  /\ run.pc = "stopped"

\* C10: empty corpus build. When the articles table is empty, the indexing
\* run succeeds and persists an index of size 0 with an empty id list.
C10_EmptyCorpus ==
  (indexer.pc = "returned" /\ indexer.articles_loaded /\ indexer.total_articles = 0) =>
    /\ indexer.result = "True"
    /\ faissFile.exists /\ faissFile.xb = <<>>
    /\ metaFile.exists /\ metaFile.article_ids = <<>>

\* C11: empty index search. With a loaded index of size 0 and an empty id
\* mapping, a search of a non-blank query returns the empty list for any k,
\* and no error is raised or reported.
C11_EmptyIndexSearch ==
  (Served /\ ~chatbot.faiss_index.isNone /\ NTotal = 0 /\ chatbot.article_ids = <<>>) =>
    /\ run.results = <<>>
    /\ ~run.raised
    /\ "Erreur lors de la recherche" \notin run.errors

\* a sequence of ids is strictly ascending
StrictlyAscending(ids) == \A i, j \in 1..Len(ids) : i < j => ids[i] < ids[j]

\* C12: build order. The builder enumerates the records in ascending id
\* order and keeps article_ids[position] = id; once the build has persisted
\* its metadata, the persisted article_ids is strictly ascending and holds
\* the id of every record of the corpus it read exactly once, and the
\* vectors were inserted in that order.
C12_BuildOrder ==
  /\ indexer.pc \in {"embedded", "index_written", "faiss_done"} =>
        /\ StrictlyAscending(IdList(indexer.df))
        /\ {indexer.df[i] : i \in 1..Len(indexer.df)} = indexer.corpus
  /\ indexer.pc \in {"index_written", "faiss_done"} =>
        \A i \in 1..Len(indexer.df) : indexer.article_ids[i] = indexer.df[i].id
  /\ indexer.pc = "faiss_done" =>
        /\ StrictlyAscending(metaFile.article_ids)
        /\ {metaFile.article_ids[i] : i \in 1..Len(metaFile.article_ids)}
              = {r.id : r \in indexer.corpus}
        /\ Len(metaFile.article_ids) = Cardinality(indexer.corpus)
        /\ Len(faissFile.xb) = Len(metaFile.article_ids)
        /\ \A i \in 1..Len(metaFile.article_ids) :
              \E r \in indexer.corpus :
                /\ r.id = metaFile.article_ids[i]
                /\ faissFile.xb[i] =
                     normalize_L2(Encode(indexer.model_name,
                                         prepare_text_for_embedding(r)))

C12_Witness ==
  /\ indexer.pc = "faiss_done"
  /\ metaFile.article_ids = <<2, 3>>
  /\ Cardinality(indexer.corpus) = 2

\* this step is the first load_faiss_index of the retriever process and it
\* read both files
FirstLoad ==
  /\ ~cache.index_set
  /\ cache'.index_set
  /\ ~cache'.index.isNone

C15_SameGeneration ==
  [][FirstLoad =>
       /\ faissFile.gen = metaFile.gen
       /\ Len(cache'.index.xb) = Len(cache'.article_ids)]_vars

\* this step is a call of semantic_search
SearchStep == run'.searched /\ run' # run

C17_LoadOnce ==
  [][/\ cache.model => cache'.model
     /\ cache.index_set =>
          /\ cache'.index_set
          /\ cache'.index = cache.index
          /\ cache'.article_ids = cache.article_ids
          /\ cache'.meta_model = cache.meta_model
          /\ chatbot'.faiss_index = cache.index
          /\ chatbot'.article_ids = cache.article_ids]_vars

C17_Witness ==
  /\ cache.model
  /\ cache.index_set
  /\ cache.index.isNone
  /\ chatbot.faiss_index.isNone
  /\ faissFile.exists /\ metaFile.exists
  /\ indexer.pc = "returned" /\ indexer.result = "True"
  /\ run.pc = "stopped"
  /\ run.init_failure = "IndexUnavailable"

\* C18: tie-break. When indexed vectors have equal score for a query, they
\* appear in the answer of the search in ascending index position.
C18_TieBreak ==
  Served =>
    \A i, j \in 1..Len(run.hits) :
      (/\ i < j
       /\ RealHit(run.hits[i]) /\ RealHit(run.hits[j])
       /\ run.hits[i].score = run.hits[j].score) =>
        run.hits[i].idx < run.hits[j].idx

\* C19: text composition. prepare_text_for_embedding returns the labelled
\* non-empty fields in the order title, abstract, keywords, subject areas,
\* joined by exactly one space; a null or empty field contributes neither
\* label nor separator, and a row with no non-empty field gives the empty
\* string.
C19_TextComposition ==
  probe.fn = "prepare_text_for_embedding" =>
    LET r == probe.row
        t == probe.text
        there(v) == v # NULL /\ v # <<>>
        seg(label, v) == <<label, " ">> \o v
        then(acc, label, v) ==
          IF ~there(v) THEN acc
          ELSE IF acc = <<>> THEN seg(label, v)
          ELSE acc \o <<" ">> \o seg(label, v)
        labels == {"Title:", "Abstract:", "Keywords:", "Subject:"}
        n == Cardinality({f \in {"title", "abstract", "keywords", "subject_areas"} :
                            there(r[f])})
    IN /\ t = then(then(then(then(<<>>, "Title:", r.title),
                                  "Abstract:", r.abstract),
                             "Keywords:", r.keywords),
                        "Subject:", r.subject_areas)
       /\ Cardinality({i \in 1..Len(t) : t[i] \in labels}) = n
       /\ (n = 0) <=> (t = <<>>)
       /\ t # <<>> => t[1] \in labels /\ t[Len(t)] # " "
       /\ \A i \in 1..(Len(t) - 1) : ~(t[i] = " " /\ t[i + 1] = " ")
       /\ \A i \in 2..Len(t) : t[i] \in labels => t[i - 1] = " "

C19_Witness ==
  /\ probe.fn = "prepare_text_for_embedding"
  /\ probe.row.title = <<"mri">>
  /\ probe.row.abstract = NULL
  /\ probe.row.keywords = <<>>
  /\ probe.row.subject_areas = <<"robot", " ", "endo">>
  /\ probe.text = <<"Title:", " ", "mri", " ", "Subject:", " ", "robot", " ", "endo">>

\* every row of the matrix has unit norm
AllUnit(xb) == \A i \in 1..Len(xb) : SqNorm(xb[i]) = UNIT * UNIT

\* C20: normalization ordering. Every corpus vector is normalized before it
\* is added to the index and every query vector before it is searched: no
\* index in memory or on disk holds a vector that is not of unit norm,
\* nothing is in the builder's index while the embeddings are still raw, and
\* each score of a served search is the inner product of a unit query vector
\* with a unit stored vector.
C20_NormalizedBeforeUse ==
  /\ indexer.pc = "embedded" => indexer.faiss_index.isNone
  /\ AllUnit(indexer.faiss_index.xb)
  /\ AllUnit(faissFile.xb)
  /\ AllUnit(cache.index.xb)
  /\ AllUnit(chatbot.faiss_index.xb)
  /\ Served =>
       /\ SqNorm(run.qvec) = UNIT * UNIT
       /\ run.qvec = normalize_L2(Encode(chatbot.model_name, run.query))
       /\ \A i \in 1..Len(run.hits) :
            RealHit(run.hits[i]) =>
              /\ run.hits[i].score =
                   InnerProduct(chatbot.faiss_index.xb[run.hits[i].idx + 1], run.qvec)
              /\ run.hits[i].score <= UNIT * UNIT
              /\ run.hits[i].score >= -(UNIT * UNIT)

C20_Witness ==
  /\ indexer.pc = "faiss_done"
  /\ indexer.embeddings # indexer.faiss_index.xb
  /\ Served
  /\ Len(run.hits) >= 1
  /\ RealHit(run.hits[1])
  /\ Encode(chatbot.model_name, run.query) # run.qvec
  /\ run.hits[1].score = UNIT * UNIT

\* C21: stable internal identifier. Across store_articles runs a record with
\* a given scopus_id keeps the internal id it was first assigned.
C21_StableId ==
  [][\A r \in articles : \A r2 \in articles' :
       r.scopus_id = r2.scopus_id => r.id = r2.id]_vars

\* the first row of the file with this scopus_id
FirstOccurrence(file, sid) ==
  file[CHOOSE i \in 1..Len(file) :
         /\ file[i].scopus_id = sid
         /\ \A j \in 1..(i - 1) : file[j].scopus_id # sid]

\* C22: deduplication. After any sequence of load_and_clean_data and
\* store_articles runs the articles table holds at most one row per
\* scopus_id; the cleaned frame has each scopus_id of the file once, and the
\* row kept (and then stored) is the first occurrence in the file.
C22_Deduplication ==
  /\ \A r1, r2 \in articles : r1.scopus_id = r2.scopus_id => r1 = r2
  /\ db.pc \in {"cleaned", "stored"} =>
        /\ \A i, j \in 1..Len(db.df) :
              db.df[i].scopus_id = db.df[j].scopus_id => i = j
        /\ {db.df[i].scopus_id : i \in 1..Len(db.df)}
              = {db.raw[i].scopus_id : i \in 1..Len(db.raw)}
        /\ \A i \in 1..Len(db.df) :
              db.df[i].title
                = clean_text(FirstOccurrence(db.raw, db.df[i].scopus_id).title)
  /\ db.pc = "stored" =>
        \A i \in 1..Len(db.raw) :
          \E r \in articles :
            /\ r.scopus_id = db.raw[i].scopus_id
            /\ r.title = clean_text(FirstOccurrence(db.raw, r.scopus_id).title)

C22_Witness ==
  /\ db.pc = "stored"
  /\ db.raw = <<A1, A1b, A2>>
  /\ db.runs = 2
  /\ Len(db.df) = 2
  /\ Cardinality(articles) = 2
  /\ \E r \in articles : r.scopus_id = "s1" /\ r.title = <<"mri", " ", "deep">>

\* C23: unique authors. After any sequence of runs the authors table holds
\* exactly one row per distinct preferred_name, and the count that
\* store_authors_and_relations reports is the number of distinct names.
C23_UniqueAuthors ==
  /\ \A a1, a2 \in db.authors : a1.preferred_name = a2.preferred_name => a1 = a2
  /\ (db.pc = "returned" /\ db.result = "True") =>
        db.unique_authors = Cardinality({a.preferred_name : a \in db.authors})

\* C24: referential integrity. After any sequence of complete pipeline runs
\* every article_authors row references an article id that is in articles
\* and an author id that is in authors, and no (article_id, author_id) pair
\* has two rows.
C24_ReferentialIntegrity ==
  (db.pc = "returned" /\ db.result = "True") =>
    /\ \A r \in db.article_authors :
          /\ \E a \in articles : a.id = r.article_id
          /\ \E a \in db.authors : a.id = r.author_id
    /\ \A r1, r2 \in db.article_authors :
          (r1.article_id = r2.article_id /\ r1.author_id = r2.author_id) => r1 = r2

\* C25: store_articles is all-or-nothing. When a row fails, the articles
\* table and its id counter are as before the call, the connection is closed
\* and the exception leaves store_articles; otherwise every row of the frame
\* is in the table and the returned count is the number of rows.
C25_AllOrNothing ==
  (db.pc \in {"stored", "returned"} /\ db.closed) =>
    /\ db.raised =>
          /\ articles = db.articles_before
          /\ db.result = "False"
          /\ db.pc = "returned"
    /\ (~db.raised /\ db.pc = "stored") =>
          /\ db.articles_count = Len(db.df)
          /\ \A i \in 1..Len(db.df) :
                \E r \in articles :
                  /\ r.scopus_id = db.df[i].scopus_id
                  /\ r.title = db.df[i].title
                  /\ r.abstract = db.df[i].abstract
          /\ \A r \in db.articles_before :
                (\A i \in 1..Len(db.df) : db.df[i].scopus_id # r.scopus_id) =>
                  r \in articles

C25_Witness ==
  /\ db.pc = "returned"
  /\ db.raised
  /\ db.closed
  /\ db.raw = <<A3, A4>>
  /\ db.articles_count = 1
  /\ Cardinality(articles) = 2
  /\ articles = db.articles_before

\* C26: load_faiss_index never returns an index without its mapping. The
\* result holds an index only when both files exist and both are read
\* successfully, and then it is the index of the file with the article_ids
\* of the metadata; in every other case the result is (None, []).
C26_IndexWithMapping ==
  probe.fn = "load_faiss_index" =>
    LET both == /\ probe.ff.exists /\ probe.mf.exists
                /\ probe.indexOK /\ probe.metaOK
    IN /\ ~probe.result.index.isNone => both
       /\ both => /\ probe.result.index = FlatIP(probe.ff.xb)
                  /\ probe.result.article_ids = probe.mf.article_ids
       /\ ~both => /\ probe.result.index = NoIndex
                   /\ probe.result.article_ids = <<>>

C26_Witness ==
  /\ probe.fn = "load_faiss_index"
  /\ probe.ff.exists
  /\ ~probe.mf.exists
  /\ probe.indexOK
  /\ probe.result.index = NoIndex
  /\ probe.result.article_ids = <<>>

\* the artefacts of one complete indexing run, in the order they are written
AllArtefacts == <<"embeddings", "faiss_index", "metadata", "chroma", "report">>

\* C27: process_complete_indexing always returns True or False, and it
\* returns True only when this run has written the embeddings file, the
\* FAISS index file, the metadata file, the Chroma collection and the
\* indexing report, in that order; a run that stopped before the last of
\* them returned False.
C27_IndexingResult ==
  indexer.pc = "returned" =>
    /\ indexer.result \in {"True", "False"}
    /\ indexer.result = "True" =>
          /\ indexer.written = AllArtefacts
          /\ faissFile.exists /\ faissFile.gen = count.builds
          /\ metaFile.exists /\ metaFile.gen = count.builds
          /\ chroma.exists
          /\ Cardinality(chroma.docs) = indexer.total_articles
    /\ indexer.written # AllArtefacts => indexer.result = "False"

C27_Witness ==
  /\ indexer.pc = "returned"
  /\ indexer.result = "False"
  /\ indexer.written = <<"embeddings", "faiss_index", "metadata", "chroma">>
  /\ chroma.exists

\* C29: after a successful process_complete_indexing the ids of the Chroma
\* collection's documents are exactly str(id) for the ids of the metadata
\* file's article_ids; no document of an earlier run is left.
C29_ChromaIds ==
  (indexer.pc = "returned" /\ indexer.result = "True") =>
    {d.id : d \in chroma.docs} =
      {Str(metaFile.article_ids[i]) : i \in 1..Len(metaFile.article_ids)}

C29_Witness ==
  /\ indexer.pc = "returned"
  /\ indexer.result = "True"
  /\ count.builds = 1
  /\ metaFile.gen = 1
  /\ \A i \in 1..Len(metaFile.article_ids) : metaFile.article_ids[i] # 1
  /\ \A d \in chroma.docs : d.id # "1"

\* C28: after every completed search_articles call, whatever the HTTP
\* outcome, total_requests = successful_requests + failed_requests, and the
\* call has increased total_requests by exactly one.
C28_Statistics ==
  (extractor.last # "none" /\ ~extractor.raised) =>
    /\ extractor.total_requests = extractor.successful_requests + extractor.failed_requests
    /\ extractor.total_requests = extractor.total_before + 1

\* positions of the date string where four digits in a row start
FourDigitRuns(s) == { i \in 1..Len(s) : FourDigitsAt(s, i) }

\* C30: extract_year returns None or an integer in 1900..2030, and only the
\* leftmost four digits count: when they are out of range the result is
\* None even if four digits further on are in range, and when they are in
\* range they are the result.
C30_YearRange ==
  probe.fn = "extract_year" =>
    LET s == probe.date_str
        runs == IF s = NULL THEN {} ELSE FourDigitRuns(s)
    IN /\ ~probe.year.isNone => probe.year.year \in 1900..2030
       /\ runs = {} => probe.year.isNone
       /\ runs # {} =>
            LET first == CHOOSE i \in runs : \A j \in runs : i <= j
            IN IF YearAt(s, first) \in 1900..2030
               THEN probe.year = Year(YearAt(s, first))
               ELSE probe.year.isNone

C30_Witness ==
  /\ probe.fn = "extract_year"
  /\ probe.date_str = <<"0", "1", "9", "9", "-", "2", "0", "2", "0">>
  /\ probe.year.isNone

====
